---- MODULE Spec2Model ----
(***************************************************************************)
(* Model of the mcp-grafana tool handlers.                                 *)
(*                                                                         *)
(* Two components are modelled.                                            *)
(*  - Alert-rule listing: alerting.listRulesHandler (provisioning fetch,   *)
(*    optional live-state fetch, join on alertStateKey) and the flat       *)
(*    tools.listAlertRulesHandler that is registered under the same tool   *)
(*    name list_alert_rules.                                               *)
(*  - Dashboard panel-query extraction: dashboard.getPanelQueriesHandler   *)
(*    and extractPanelQueries over the weakly typed dashboard document.    *)
(*                                                                         *)
(* A handler is split at its outbound HTTP requests: one action binds the  *)
(* arguments and creates the client, one action per request receives the   *)
(* upstream's answer and runs the handler up to its next request or to its *)
(* return.                                                                 *)
(***************************************************************************)
EXTENDS Integers, Sequences, FiniteSets, TLC

VARIABLES
    pc,         \* position of the running handler: "idle", a fetch, "done"
    handler,    \* the handler that is running or that returned last
    params,     \* the bound arguments of the call
    requests,   \* the HTTP requests the call has issued, in order
    rules,      \* listRules' decoded answer ([]Rule) of this call
    groups,     \* the live-state answer resp.Data.Groups of this call
    fetched,    \* which of the call's fetches succeeded
    dashboard,  \* the decoded dashboard Response of this call
    result,     \* the *mcp.CallToolResult the handler returned
    env,        \* the process environment: GRAFANA_URL and GRAFANA_API_KEY
    inflight,   \* the invocations running concurrently, each with its frame
    transport   \* http.DefaultTransport: its connections and its idle pool

vars ==
    <<pc, handler, params, requests, rules, groups, fetched, dashboard,
      result, env, inflight, transport>>

(***************************************************************************)
(* Bounds of the model.                                                    *)
(***************************************************************************)
MaxRules == 2
MaxGroups == 2
MaxGroupRules == 1
MaxPanels == 2
MaxTargets == 2

(***************************************************************************)
(* Program constants.                                                      *)
(***************************************************************************)
DefaultRulesLimit == 100
DefaultAlertRulesLimit == 100
StatusOK == 200

\* Decoded JSON (encoding/json into `any`): nil, string, float64,
\* map[string]any and []any. A type assertion v.(T) is the test of the tag.
JNil == [t |-> "nil"]
JString(s) == [t |-> "string", v |-> s]
JFloat(n) == [t |-> "float64", v |-> n]
JMap(m) == [t |-> "map", v |-> m]
JSlice(s) == [t |-> "slice", v |-> s]

IsString(x) == x.t = "string"
IsFloat(x) == x.t = "float64"
IsMap(x) == x.t = "map"
IsSlice(x) == x.t = "slice"

\* m[k] of a Go map: the zero value (nil) when the key is absent.
Index(m, k) == IF k \in DOMAIN m THEN m[k] ELSE JNil

\* The Meta of a dashboard Response, as far as buildSummary reads it; the
\* zero Meta of a response without a "meta" member.
Meta(folderTitle, url, created, updated) ==
    [FolderTitle |-> folderTitle, URL |-> url, Created |-> created,
     Updated |-> updated]
NoMeta == Meta("", "", "", "")

\* The dashboard Response: json.Unmarshal into Response{Meta, Dashboard}.
Response(meta, doc) == [Meta |-> meta, Dashboard |-> doc]

\* The Response of a call that has fetched no dashboard.
NoDashboard == Response(NoMeta, JNil)

\* A Go nil map / empty map[string]string.
NoMap == <<>>

\* All sequences over S of length at most n.
SeqUpTo(S, n) == UNION {[1..k -> S] : k \in 0..n}

(***************************************************************************)
(* Upstream answers to one HTTP request, as makeRequest and json.Unmarshal *)
(* tell them apart: the transport failed, the status is not 200, the body  *)
(* does not decode, or the body decodes to a value.                        *)
(***************************************************************************)

\* An upstream answer: its kind, its status, its body and the body's size
\* in bytes.
Answer(kind, status, body, size) ==
    [kind |-> kind, status |-> status, body |-> body, size |-> size]

Failures ==
    {Answer("transport", 0, "", 0),
     Answer("status", 500, "boom", 4),
     Answer("status", 404, "", 0),
     Answer("decode", StatusOK, "<html>", 6)}

\* fmt.Errorf("API returned status %d: %s", resp.StatusCode, string(bodyBytes))
statusError(status, body) ==
    "API returned status " \o ToString(status) \o ": " \o body

\* client.makeRequest of the alerting, dashboard, Prometheus and Tempo
\* clients: the whole body is read, and returned only for a 200 answer.
makeRequest_anyStatus(resp) ==
    IF resp.kind = "transport"
    THEN [ok |-> FALSE, err |-> "executing request", body |-> "", read |-> 0]
    ELSE [ok |-> TRUE, err |-> "", body |-> resp.body, read |-> resp.size]
makeRequest(resp) ==
    IF resp.kind = "transport"
    THEN [ok |-> FALSE, err |-> "executing request", body |-> "", read |-> 0]
    ELSE IF resp.status # StatusOK
         THEN [ok |-> FALSE, err |-> statusError(resp.status, resp.body),
               body |-> "", read |-> resp.size]
         ELSE [ok |-> TRUE, err |-> "", body |-> resp.body,
               read |-> resp.size]

\* makeRequest followed by json.Unmarshal of the body.
fetchOK(resp) == makeRequest(resp).ok /\ resp.kind # "decode"

fetchErr(resp) ==
    IF ~makeRequest(resp).ok THEN makeRequest(resp).err ELSE "unmarshalling"

(***************************************************************************)
(* Alerting: data.                                                         *)
(***************************************************************************)
\* Rule (provisioning API). Only the fields the summary reads are kept.
Rule(uid, title, folder, group, for, labels, annotations, paused) ==
    [UID |-> uid, Title |-> title, FolderUID |-> folder, RuleGroup |-> group,
     For |-> for, Labels |-> labels, Annotations |-> annotations,
     IsPaused |-> paused]

RulePool ==
    {Rule("uid-1", "a|b", "f1", "c", "5m", ("severity" :> "page"),
          ("summary" :> "s1"), FALSE),
     Rule("uid-2", "a", "f2", "b|c", "1m", NoMap, NoMap, TRUE),
     Rule("uid-3", "a", "f1", "d", "", ("team" :> "x"), NoMap, FALSE)}

\* prometheusRule (live-state API).
PrometheusRule(name, state, health, type) ==
    [Name |-> name, State |-> state, Health |-> health, Type |-> type,
     Labels |-> ("alertname" :> name), Annotations |-> ("live" :> "yes")]

PrometheusRulePool ==
    {PrometheusRule("a", "firing", "ok", "alerting"),
     PrometheusRule("a", "inactive", "error", "alerting"),
     PrometheusRule("a", "recorded", "unknown", "recording")}

GroupNames == {"b|c", "d"}

\* prometheusRuleGroup
PrometheusRuleGroups ==
    {[Name |-> n, Rules |-> rs] :
        n \in GroupNames, rs \in SeqUpTo(PrometheusRulePool, MaxGroupRules)}

RuleSummary(uid, title, state, health, folder, group, for, labels, ann, paused) ==
    [UID |-> uid, Title |-> title, State |-> state, Health |-> health,
     FolderUID |-> folder, RuleGroup |-> group, For |-> for,
     Labels |-> labels, Annotations |-> ann, IsPaused |-> paused]

\* What the provisioning endpoint may answer: any list of rules (the
\* upstream decides whether it honours the limit parameter), or a failure.
ProvisioningAnswers ==
    Failures \cup
    {[kind |-> "ok", status |-> StatusOK, body |-> "[]", size |-> 2,
      rules |-> rs] :
        rs \in SeqUpTo(RulePool, MaxRules)}

\* What the live-state endpoint may answer: its full rule-group tree.
StateAnswers ==
    Failures \cup
    {[kind |-> "ok", status |-> StatusOK, body |-> "{}", size |-> 2,
      groups |-> gs] :
        gs \in SeqUpTo(PrometheusRuleGroups, MaxGroups)}

LimitArgs == {0, 1}

(***************************************************************************)
(* Alerting: pure parts of the handlers.                                   *)
(***************************************************************************)
\* alertStateKey creates a key for matching alerts across APIs.
alertStateKey(title, ruleGroup) == title \o "|" \o ruleGroup

\* limit := params.Limit; if limit <= 0 { limit = DefaultRulesLimit }
effectiveLimit(limit) == IF limit <= 0 THEN DefaultRulesLimit ELSE limit

\* limit := params.Limit; if limit <= 0 { limit = DefaultAlertRulesLimit }
effectiveAlertRulesLimit(limit) ==
    IF limit <= 0 THEN DefaultAlertRulesLimit ELSE limit

\* The type test of getRulesWithState's inner loop.
isAlerting_any(rule) == TRUE
isAlerting(rule) == rule.Type = "alerting"

\* The inner loop of getRulesWithState over one group's rules.
RECURSIVE groupSummaries(_, _)
groupSummaries(group, i) ==
    IF i > Len(group.Rules) THEN <<>>
    ELSE LET rule == group.Rules[i]
             rest == groupSummaries(group, i + 1)
         IN  IF ~isAlerting(rule) THEN rest
             ELSE <<RuleSummary("", rule.Name, rule.State, rule.Health, "",
                                group.Name, "", rule.Labels,
                                rule.Annotations, FALSE)>> \o rest

\* getRulesWithState after the decode: the outer loop over the groups.
RECURSIVE getRulesWithState(_)
getRulesWithState(gs) ==
    IF gs = <<>> THEN <<>>
    ELSE groupSummaries(Head(gs), 1) \o getRulesWithState(Tail(gs))

\* stateMap[key] = sr
putState_keepFirst(m, key, sr) ==
    IF key \in DOMAIN m THEN m
    ELSE [k \in DOMAIN m \cup {key} |-> IF k = key THEN sr ELSE m[k]]
putState(m, key, sr) ==
    [k \in DOMAIN m \cup {key} |-> IF k = key THEN sr ELSE m[k]]

\* stateMap[key] = sr for every state rule in order: a later entry replaces
\* an earlier one with the same key.
RECURSIVE buildStateMap(_, _)
buildStateMap(stateRules, m) ==
    IF stateRules = <<>> THEN m
    ELSE LET sr == Head(stateRules)
             key == alertStateKey(sr.Title, sr.RuleGroup)
         IN  buildStateMap(Tail(stateRules), putState(m, key, sr))

\* The summary built from one provisioning rule (list_rules.go:62-71).
summaryOfRule(r) ==
    RuleSummary(r.UID, r.Title, "", "", r.FolderUID, r.RuleGroup, r.For,
                r.Labels, r.Annotations, r.IsPaused)

\* The enrichment of one summary (list_rules.go:73-79).
enrich(summary, includeState, stateMap) ==
    LET key == alertStateKey(summary.Title, summary.RuleGroup)
    IN  IF includeState /\ key \in DOMAIN stateMap
        THEN [summary EXCEPT !.State = stateMap[key].State,
                             !.Health = stateMap[key].Health]
        ELSE summary

\* The conversion loop of listRulesHandler.
summarize(rs, includeState, stateMap) ==
    [i \in 1..Len(rs) |-> enrich(summaryOfRule(rs[i]), includeState, stateMap)]

\* summaries[:limit] when len(summaries) > limit (list_alert_rules.go:42-44).
applyLimit(summaries, limit) ==
    IF Len(summaries) > limit THEN SubSeq(summaries, 1, limit) ELSE summaries

\* if params.IncludeState { ... } of tools.listAlertRulesHandler.
useStateAPI_always(p) == TRUE
useStateAPI(p) == p.IncludeState

\* A *mcp.CallToolResult: isError and the error text of
\* mcp.NewToolResultError, or the value marshalled into
\* mcp.NewToolResultText with the JSON kind of its top level ("array",
\* "object" or "null").
\* Each handler returns it with its second value, the Go error, which is nil
\* in every return statement of a tool handler.
NilError == "nil"
ToolError(msg) ==
    [isError |-> TRUE, text |-> msg, content |-> <<>>, json |-> "",
     err |-> NilError]
ToolResultText(content, kind) ==
    [isError |-> FALSE, text |-> "", content |-> content, json |-> kind,
     err |-> NilError]
ToolResult(content) == ToolResultText(content, "array")
NoResult ==
    [isError |-> FALSE, text |-> "none", content |-> <<>>, json |-> "",
     err |-> NilError]
\* The outcome of each of the call's fetches: "none" (not issued), "ok", "failed".
NoAnswer == Answer("none", 0, "", 0)
NoFetch ==
    [provisioning |-> "none", state |-> "none", dashboard |-> "none",
     answer |-> NoAnswer, read |-> 0]
outcome(resp) == IF fetchOK(resp) THEN "ok" ELSE "failed"

\* http.NewRequestWithContext(ctx, method, url, nil): the request carries no
\* body.
Request_withBody(method, path, query) ==
    [method |-> "POST", path |-> path, query |-> query, body |-> "{}"]
Request(method, path, query) ==
    [method |-> method, path |-> path, query |-> query, body |-> "nil"]

\* resp, err := c.httpClient.Do(req): the request is sent once.
Do_retried(sent, req) == Append(Append(sent, req), req)
Do(sent, req) == Append(sent, req)

(***************************************************************************)
(* grafana.GetHTTPClientForGrafana and the process environment. A value is *)
(* a sequence of characters; an unset variable reads as the empty value.   *)
(***************************************************************************)
Environments ==
    {[GRAFANA_URL |-> url, GRAFANA_API_KEY |-> key] :
        url \in {<<>>, <<"/">>, <<"h", "/">>}, key \in {<<>>, <<"k">>}}

\* strings.TrimRight(s, "/")
RECURSIVE TrimRight(_)
TrimRight(s) ==
    IF Len(s) > 0 /\ s[Len(s)] = "/" THEN TrimRight(SubSeq(s, 1, Len(s) - 1))
    ELSE s

GetHTTPClientForGrafana_keyless(e) ==
    LET grafanaURL == TrimRight(e.GRAFANA_URL)
    IN  IF grafanaURL = <<>>
        THEN [apiKey |-> <<>>, grafanaURL |-> <<>>,
              err |-> "GRAFANA_URL environment variable not set"]
        ELSE [apiKey |-> e.GRAFANA_API_KEY, grafanaURL |-> grafanaURL,
              err |-> NilError]
GetHTTPClientForGrafana(e) ==
    LET grafanaURL == TrimRight(e.GRAFANA_URL)
    IN  IF grafanaURL = <<>>
        THEN [apiKey |-> <<>>, grafanaURL |-> <<>>,
              err |-> "GRAFANA_URL environment variable not set"]
        ELSE IF e.GRAFANA_API_KEY = <<>>
        THEN [apiKey |-> <<>>, grafanaURL |-> <<>>,
              err |-> "GRAFANA_API_KEY environment variable not set"]
        ELSE [apiKey |-> e.GRAFANA_API_KEY, grafanaURL |-> grafanaURL,
              err |-> NilError]

\* httpClient, grafanaURL, err := grafana.GetHTTPClientForGrafana();
\* if err != nil { return nil, err }: every newClient of the tools.
envOK == GetHTTPClientForGrafana(env).err = NilError

(***************************************************************************)
(* Invocations in flight together. Each has a frame of its own: its place  *)
(* in the handler, the client GetHTTPClientForGrafana made for it, the     *)
(* connection its request went out on, the answer the upstream gives to    *)
(* its request and its result. http.DefaultTransport is the one transport  *)
(* of the process: the connections it has dialed, the idle ones it keeps   *)
(* for the next request, and what is on the wire of each.                  *)
(***************************************************************************)
MaxInvocations == 2

\* &bearerAuthTransport{apiKey: apiKey, transport: http.DefaultTransport}
bearerAuthTransport(i, apiKey) ==
    [id |-> "bearerAuthTransport#" \o ToString(i), apiKey |-> apiKey,
     transport |-> "http.DefaultTransport"]

\* &http.Client{Timeout: 30 * time.Second, Transport: &bearerAuthTransport{}}
httpClient(i, apiKey) ==
    [id |-> "http.Client#" \o ToString(i),
     Transport |-> bearerAuthTransport(i, apiKey)]

\* No invocation is in flight: every frame is empty, with a nil client and
\* no connection.
NoInvocations ==
    [i \in 1..MaxInvocations |->
        [pc |-> "idle", client |-> [id |-> "nil", Transport |-> "nil"],
         conn |-> 0, answer |-> Answer("none", 0, "", 0),
         result |-> [isError |-> FALSE, text |-> "none", content |-> <<>>,
                     json |-> "", err |-> "nil"]]]

\* http.DefaultTransport before the first request: no connection.
DefaultTransport ==
    [conns |-> {}, idle |-> {},
     wire |-> [c \in {} |-> Answer("none", 0, "", 0)]]

(***************************************************************************)
(* Initial state: the server is registered and no call has been made.      *)
(***************************************************************************)
Init ==
    /\ pc = "idle"
    /\ handler = "none"
    /\ params = [Limit |-> 0, IncludeState |-> FALSE, UID |-> ""]
    /\ requests = <<>>
    /\ rules = <<>>
    /\ groups = <<>>
    /\ fetched = NoFetch
    /\ dashboard = NoDashboard
    /\ result = NoResult
    /\ env \in Environments
    /\ inflight = NoInvocations
    /\ transport = DefaultTransport

\* The state every call starts from: the server is idle, and nothing of an
\* earlier call is kept (a handler holds no state outside its own frame).
Begin(h, p) ==
    /\ pc = "idle"
    /\ handler' = h
    /\ params' = p
    /\ UNCHANGED <<requests, rules, groups, fetched, dashboard>>
    /\ UNCHANGED <<env, inflight, transport>>

Return(r) == pc' = "done" /\ result' = r

(***************************************************************************)
(* alerting.listRulesHandler                                               *)
(***************************************************************************)
\* BindArguments and newClient (list_rules.go:23-36).
listRulesHandler_Call ==
    /\ pc = "idle"
    /\ \E limit \in LimitArgs, includeState \in BOOLEAN :
        /\ Begin("listRulesHandler",
                 [Limit |-> limit, IncludeState |-> includeState, UID |-> ""])
        /\ IF envOK
           THEN pc' = "listRules" /\ result' = NoResult
           ELSE Return(ToolError("creating alerting client"))

\* The handler from the rules fetched to its return (list_rules.go:44-89).
listRulesHandler_finish(rs, includeState, stateOK, gs) ==
    LET stateMap == IF includeState /\ stateOK
                    THEN buildStateMap(getRulesWithState(gs), <<>>)
                    ELSE <<>>
    IN  ToolResult(summarize(rs, includeState, stateMap))

\* c.listRules(ctx, limit) and, without includeState, the rest of the handler.
listRulesHandler_listRules ==
    /\ pc = "listRules"
    /\ handler = "listRulesHandler"
    /\ \E resp \in ProvisioningAnswers :
        /\ requests' = Do(requests,
               Request("GET", "/api/v1/provisioning/alert-rules",
                       effectiveLimit(params.Limit)))
        /\ IF ~fetchOK(resp)
           THEN /\ Return(ToolError(fetchErr(resp)))
                /\ fetched' = [fetched EXCEPT !.provisioning = "failed"]
                /\ UNCHANGED rules
           ELSE /\ rules' = resp.rules
                /\ fetched' = [fetched EXCEPT !.provisioning = "ok"]
                /\ IF params.IncludeState
                   THEN pc' = "getRulesWithState" /\ UNCHANGED result
                   ELSE Return(listRulesHandler_finish(resp.rules, FALSE,
                                                       FALSE, <<>>))
        /\ UNCHANGED <<handler, params, groups, dashboard, env, inflight, transport>>

\* c.getRulesWithState(ctx) and the rest of the handler.
listRulesHandler_getRulesWithState ==
    /\ pc = "getRulesWithState"
    /\ handler = "listRulesHandler"
    /\ \E resp \in StateAnswers :
        /\ requests' = Do(requests,
               Request("GET", "/api/prometheus/grafana/api/v1/rules", 0))
        /\ groups' = IF fetchOK(resp) THEN resp.groups ELSE <<>>
        /\ fetched' = [fetched EXCEPT !.state = outcome(resp)]
        /\ Return(listRulesHandler_finish(rules, TRUE, fetchOK(resp),
                      IF fetchOK(resp) THEN resp.groups ELSE <<>>))
        /\ UNCHANGED <<handler, params, rules, dashboard, env, inflight, transport>>

(***************************************************************************)
(* tools.listAlertRulesHandler                                             *)
(***************************************************************************)
\* BindArguments, newAlertingClient and the branch on IncludeState
\* (list_alert_rules.go:19-35).
listAlertRulesHandler_Call ==
    /\ pc = "idle"
    /\ \E limit \in LimitArgs, includeState \in BOOLEAN :
        LET p == [Limit |-> limit, IncludeState |-> includeState, UID |-> ""]
        IN  /\ Begin("listAlertRulesHandler", p)
            /\ IF envOK
               THEN /\ pc' = IF useStateAPI(p) THEN "getAlertRulesWithState"
                                               ELSE "listAlertRules"
                    /\ result' = NoResult
               ELSE Return(ToolError("creating alerting client"))

\* client.getAlertRulesWithState(ctx) and the return (list_alert_rules.go:36-55).
listAlertRulesHandler_getAlertRulesWithState ==
    /\ pc = "getAlertRulesWithState"
    /\ handler = "listAlertRulesHandler"
    /\ \E resp \in StateAnswers :
        /\ requests' = Do(requests,
               Request("GET", "/api/prometheus/grafana/api/v1/rules", 0))
        /\ groups' = IF fetchOK(resp) THEN resp.groups ELSE <<>>
        /\ fetched' = [fetched EXCEPT !.state = outcome(resp)]
        /\ IF ~fetchOK(resp)
           THEN Return(ToolError(fetchErr(resp)))
           ELSE Return(ToolResult(applyLimit(getRulesWithState(resp.groups),
                                  effectiveAlertRulesLimit(params.Limit))))
        /\ UNCHANGED <<handler, params, rules, dashboard, env, inflight, transport>>

\* client.listAlertRules(ctx, limit) and the return (list_alert_rules.go:59-88).
listAlertRulesHandler_listAlertRules ==
    /\ pc = "listAlertRules"
    /\ handler = "listAlertRulesHandler"
    /\ \E resp \in ProvisioningAnswers :
        /\ requests' = Do(requests,
               Request("GET", "/api/v1/provisioning/alert-rules",
                       effectiveAlertRulesLimit(params.Limit)))
        /\ IF ~fetchOK(resp)
           THEN /\ Return(ToolError(fetchErr(resp)))
                /\ fetched' = [fetched EXCEPT !.provisioning = "failed"]
                /\ UNCHANGED rules
           ELSE /\ rules' = resp.rules
                /\ fetched' = [fetched EXCEPT !.provisioning = "ok"]
                /\ Return(ToolResult([i \in 1..Len(resp.rules) |->
                                         summaryOfRule(resp.rules[i])]))
        /\ UNCHANGED <<handler, params, groups, dashboard, env, inflight, transport>>

\* The result has been written to the caller; the handler's frame is gone
\* and the server waits for the next call.
ResponseWritten ==
    /\ pc = "done"
    /\ pc' = "idle"
    /\ handler' = "none"
    /\ params' = [Limit |-> 0, IncludeState |-> FALSE, UID |-> ""]
    /\ requests' = <<>>
    /\ rules' = <<>>
    /\ groups' = <<>>
    /\ fetched' = NoFetch
    /\ dashboard' = NoDashboard
    /\ result' = NoResult
    /\ UNCHANGED <<env, inflight, transport>>

NextRules ==
    \/ ResponseWritten
    \/ listRulesHandler_Call
    \/ listRulesHandler_listRules
    \/ listRulesHandler_getRulesWithState
    \/ listAlertRulesHandler_Call
    \/ listAlertRulesHandler_getAlertRulesWithState
    \/ listAlertRulesHandler_listAlertRules

SpecRules == Init /\ [][NextRules]_vars

(***************************************************************************)
(* Claims about list_alert_rules.                                          *)
(***************************************************************************)
ListAlertRulesHandlers == {"listRulesHandler", "listAlertRulesHandler"}

\* A list_alert_rules call has returned a success result.
ListReturned ==
    /\ pc = "done"
    /\ handler \in ListAlertRulesHandlers
    /\ ~result.isError

\* The limit the call is held to: the requested one when > 0, else 100.
CallLimit == IF params.Limit > 0 THEN params.Limit ELSE 100

Populated(s) == s.State # "" \/ s.Health # ""

\* The live-state records of the answer, each with its group's name.
StateRecords ==
    UNION {{[Name |-> groups[g].Rules[j].Name, RuleGroup |-> groups[g].Name,
             State |-> groups[g].Rules[j].State,
             Health |-> groups[g].Rules[j].Health,
             Type |-> groups[g].Rules[j].Type] :
               j \in DOMAIN groups[g].Rules} : g \in DOMAIN groups}

AlertingRecords == {r \in StateRecords : r.Type = "alerting"}

\* C1: with includeState and both fetches successful, a returned summary has
\* State/Health populated if and only if some alerting live-state record has
\* exactly its Title and exactly its RuleGroup.
C1_PopulatedIffExactPair ==
    (ListReturned /\ params.IncludeState
        /\ fetched.provisioning = "ok" /\ fetched.state = "ok")
    => \A i \in DOMAIN result.content :
          LET s == result.content[i]
          IN  Populated(s) <=>
                \E r \in AlertingRecords :
                    r.Name = s.Title /\ r.RuleGroup = s.RuleGroup

\* The summary list_alert_rules owes for one provisioning rule, state apart.
SameConfig(s, r) ==
    /\ s.UID = r.UID
    /\ s.Title = r.Title
    /\ s.FolderUID = r.FolderUID
    /\ s.RuleGroup = r.RuleGroup
    /\ s.For = r.For
    /\ s.Labels = r.Labels
    /\ s.Annotations = r.Annotations
    /\ s.IsPaused = r.IsPaused

\* C2: with includeState, when the live-state fetch fails (and the
\* provisioning fetch did not), the call returns a success result with every
\* provisioning rule, each with empty State and Health.
C2_StateFailureIsNotFatal ==
    (/\ pc = "done"
     /\ handler \in ListAlertRulesHandlers
     /\ params.IncludeState
     /\ fetched.state = "failed"
     /\ fetched.provisioning # "failed")
    => /\ ~result.isError
       /\ Len(result.content) = Len(rules)
       /\ \A i \in DOMAIN result.content :
             /\ SameConfig(result.content[i], rules[i])
             /\ ~Populated(result.content[i])

\* C3: a successful list_alert_rules call returns at most the effective
\* limit of summaries, whatever the upstream answered.
C3_AtMostLimit ==
    ListReturned => Len(result.content) <= CallLimit

\* C4: a successful list_alert_rules call returns exactly one summary per
\* rule of the provisioning answer, in order, carrying that rule's UID,
\* Title, FolderUID, RuleGroup, For, Labels, Annotations and IsPaused, with
\* and without includeState.
C4_OneSummaryPerRule ==
    ListReturned =>
        /\ Len(result.content) = Len(rules)
        /\ \A i \in DOMAIN result.content :
              i \in DOMAIN rules /\ SameConfig(result.content[i], rules[i])

\* C5: without includeState, State and Health are empty on every summary.
C5_NoStateWithoutIncludeState ==
    (ListReturned /\ ~params.IncludeState)
    => \A i \in DOMAIN result.content : ~Populated(result.content[i])

C5_Witness ==
    /\ ListReturned
    /\ ~params.IncludeState
    /\ Len(result.content) = MaxRules
    /\ handler = "listAlertRulesHandler"

\* C6: a live-state entry whose Type is not "alerting" never supplies
\* State/Health: every populated summary carries the State and Health of an
\* alerting entry with its key, wherever the other entries stand.
C6_OnlyAlertingSupplyState ==
    (ListReturned /\ params.IncludeState)
    => \A i \in DOMAIN result.content :
          LET s == result.content[i]
          IN  Populated(s) =>
                \E r \in AlertingRecords :
                    /\ alertStateKey(r.Name, r.RuleGroup)
                         = alertStateKey(s.Title, s.RuleGroup)
                    /\ r.State = s.State
                    /\ r.Health = s.Health

\* An alerting entry followed by a recording entry of the same name and
\* group, and a summary that kept the alerting entry's state.
C6_Witness ==
    /\ ListReturned
    /\ params.IncludeState
    /\ handler = "listRulesHandler"
    /\ Len(groups) = 2
    /\ groups[1].Name = groups[2].Name
    /\ Len(groups[1].Rules) = 1 /\ Len(groups[2].Rules) = 1
    /\ groups[1].Rules[1].Type = "alerting"
    /\ groups[2].Rules[1].Type = "recording"
    /\ groups[1].Rules[1].Name = groups[2].Rules[1].Name
    /\ \E i \in DOMAIN result.content :
          /\ result.content[i].Title = groups[1].Rules[1].Name
          /\ result.content[i].RuleGroup = groups[1].Name
          /\ result.content[i].State = groups[1].Rules[1].State
          /\ result.content[i].Health = groups[1].Rules[1].Health

(***************************************************************************)
(* Dashboards: data.                                                       *)
(***************************************************************************)
\* A target node without a datasource of its own.
PlainTarget == JMap(("refId" :> JString("A")) @@ ("expr" :> JString("up")))

\* A target node overriding the uid only, with expr and query both set.
UIDOnlyTarget ==
    JMap(("refId" :> JString("B"))
         @@ ("datasource" :> JMap(("uid" :> JString("ds2"))))
         @@ ("expr" :> JString("rate")) @@ ("query" :> JString("q")))

\* A target node overriding the type only, its uid and refId of the wrong
\* type and its expr empty.
TypeOnlyTarget ==
    JMap(("refId" :> JFloat(3))
         @@ ("datasource" :> JMap(("type" :> JString("loki"))
                                  @@ ("uid" :> JFloat(7))))
         @@ ("expr" :> JString("")) @@ ("query" :> JString("sel")))

\* A target node whose datasource is no object and whose query is no string.
LegacyTarget ==
    JMap(("datasource" :> JString("legacy")) @@ ("query" :> JFloat(1)))

TargetPool == {UIDOnlyTarget, TypeOnlyTarget}

\* Further targets sequences: with the plain target, and with elements that
\* are no objects.
ExtraTargetLists ==
    {<<PlainTarget>>,
     <<PlainTarget, UIDOnlyTarget>>,
     <<JString("not-an-object")>>,
     <<PlainTarget, JNil>>,
     <<JString("not-an-object"), LegacyTarget>>}

\* Panel nodes without their targets: fully described, and with everything
\* absent or of the wrong type.
PanelBases ==
    {("id" :> JFloat(1)) @@ ("title" :> JString("CPU"))
        @@ ("datasource" :> JMap(("uid" :> JString("ds1"))
                                 @@ ("type" :> JString("prometheus")))),
     ("id" :> JString("x")) @@ ("title" :> JFloat(0))}

\* Panel nodes: no object; without targets; targets of the wrong type;
\* targets a sequence.
PanelPool ==
    {JNil}
    \cup {JMap(b) : b \in PanelBases}
    \cup {JMap(b @@ ("targets" :> JString("none"))) : b \in PanelBases}
    \cup {JMap(b @@ ("targets" :> JSlice(ts))) :
             b \in PanelBases,
             ts \in SeqUpTo(TargetPool, MaxTargets) \cup ExtraTargetLists}

\* Dashboard documents without a panels sequence.
ShapelessDocuments ==
    {JNil, JMap(("title" :> JString("D"))),
     JMap(("title" :> JString("D")) @@ ("panels" :> JString("none")))}

\* The dashboard document with the given panels sequence.
DocumentOf(ps) == JMap(("title" :> JString("D")) @@ ("panels" :> JSlice(ps)))

\* Documents with the summary's other fields present, absent and of the
\* wrong type.
AnnotatedDocuments ==
    {JMap(("title" :> JFloat(1)) @@ ("description" :> JString("about"))
          @@ ("tags" :> JSlice(<<JString("a"), JFloat(2), JString("b")>>))
          @@ ("templating" :> JMap(("list" :> JSlice(
                 <<JMap(("name" :> JString("env"))
                        @@ ("type" :> JString("query"))
                        @@ ("label" :> JString("Env"))),
                   JNil,
                   JMap(("name" :> JFloat(0)))>>))))
          @@ ("panels" :> JSlice(
                 <<JMap(("id" :> JFloat(2)) @@ ("type" :> JString("graph"))
                        @@ ("description" :> JFloat(0))
                        @@ ("targets" :> JSlice(<<PlainTarget>>))),
                   JString("row")>>))),
     JMap(("description" :> JNil) @@ ("tags" :> JString("a"))
          @@ ("templating" :> JString("none"))),
     JMap(("title" :> JString("D"))
          @@ ("templating" :> JMap(("list" :> JString("none")))))}

\* The meta member of a fetched dashboard.
DashboardMeta == Meta("General", "/d/dash-1/d", "2024-01-01", "2024-02-01")

UIDArgs == {"", "dash-1"}

PanelQuery(panelID, panelTitle, dsUID, dsType, expr, refID, raw) ==
    [PanelID |-> panelID, PanelTitle |-> panelTitle, DatasourceUID |-> dsUID,
     DatasourceType |-> dsType, QueryExpr |-> expr, RefID |-> refID,
     RawQuery |-> raw]

(***************************************************************************)
(* Dashboards: extractPanelQueries.                                        *)
(***************************************************************************)
\* The datasource of a panel or a target over the inherited values: each
\* field is overwritten on its own, and only by a string
\* (get_panel_queries.go:83-90 and 112-119).
datasourceOf_wholeTuple(node, uid, type) ==
    LET ds == Index(node, "datasource")
    IN  IF IsMap(ds)
        THEN [uid |-> IF IsString(Index(ds.v, "uid"))
                      THEN Index(ds.v, "uid").v ELSE "",
              type |-> IF IsString(Index(ds.v, "type"))
                       THEN Index(ds.v, "type").v ELSE ""]
        ELSE [uid |-> uid, type |-> type]
datasourceOf(node, uid, type) ==
    LET ds == Index(node, "datasource")
    IN  IF IsMap(ds)
        THEN [uid |-> IF IsString(Index(ds.v, "uid"))
                      THEN Index(ds.v, "uid").v ELSE uid,
              type |-> IF IsString(Index(ds.v, "type"))
                       THEN Index(ds.v, "type").v ELSE type]
        ELSE [uid |-> uid, type |-> type]

\* query.QueryExpr (get_panel_queries.go:128-132).
queryExprOf_queryFirst(targetMap) ==
    LET expr == Index(targetMap, "expr")
        queryStr == Index(targetMap, "query")
    IN  IF IsString(queryStr) /\ queryStr.v # "" THEN queryStr.v
        ELSE IF IsString(expr) /\ expr.v # "" THEN expr.v
        ELSE ""
queryExprOf(targetMap) ==
    LET expr == Index(targetMap, "expr")
        queryStr == Index(targetMap, "query")
    IN  IF IsString(expr) /\ expr.v # "" THEN expr.v
        ELSE IF IsString(queryStr) /\ queryStr.v # "" THEN queryStr.v
        ELSE ""

\* query.RawQuery = targetMap: the target node itself, no copy and no
\* selection of keys.
rawQueryOf_withoutDatasource(targetMap) ==
    [k \in DOMAIN targetMap \ {"datasource"} |-> targetMap[k]]
rawQueryOf(targetMap) == targetMap

\* The PanelQuery of one target node (get_panel_queries.go:104-135).
targetQuery(panelID, panelTitle, panelDs, targetMap) ==
    LET ds == datasourceOf(targetMap, panelDs.uid, panelDs.type)
        refID == IF IsString(Index(targetMap, "refId"))
                 THEN Index(targetMap, "refId").v ELSE ""
    IN  PanelQuery(panelID, panelTitle, ds.uid, ds.type,
                   queryExprOf(targetMap), refID, rawQueryOf(targetMap))

\* queries = append(queries, query)
appendQuery_prepend(queries, query) == <<query>> \o queries
appendQuery(queries, query) == Append(queries, query)

\* The loop over a panel's targets (get_panel_queries.go:98-138).
RECURSIVE targetsLoop(_, _, _, _, _, _)
targetsLoop(queries, targets, i, panelID, panelTitle, panelDs) ==
    IF i > Len(targets) THEN queries
    ELSE IF ~IsMap(targets[i])
         THEN targetsLoop(queries, targets, i + 1, panelID, panelTitle, panelDs)
         ELSE targetsLoop(
                  appendQuery(queries,
                      targetQuery(panelID, panelTitle, panelDs, targets[i].v)),
                  targets, i + 1, panelID, panelTitle, panelDs)

\* targets, ok := panelMap["targets"].([]any); the loop runs over them.
targetsOf_firstOnly(panelMap) ==
    IF IsSlice(Index(panelMap, "targets"))
       /\ Len(Index(panelMap, "targets").v) > 0
    THEN <<Index(panelMap, "targets").v[1]>>
    ELSE <<>>
targetsOf(panelMap) ==
    IF IsSlice(Index(panelMap, "targets"))
    THEN Index(panelMap, "targets").v
    ELSE <<>>

\* The loop over the panels (get_panel_queries.go:64-139).
RECURSIVE panelsLoop(_, _, _)
panelsLoop(queries, panels, i) ==
    IF i > Len(panels) THEN queries
    ELSE IF ~IsMap(panels[i]) THEN panelsLoop(queries, panels, i + 1)
    ELSE LET panelMap == panels[i].v
             panelID == IF IsFloat(Index(panelMap, "id"))
                        THEN Index(panelMap, "id").v ELSE 0
             panelTitle == IF IsString(Index(panelMap, "title"))
                           THEN Index(panelMap, "title").v ELSE ""
             panelDs == datasourceOf(panelMap, "", "")
         IN  panelsLoop(
                 targetsLoop(queries, targetsOf(panelMap), 1,
                             panelID, panelTitle, panelDs),
                 panels, i + 1)

\* extractPanelQueries extracts all queries from a dashboard's panels.
extractPanelQueries_firstPanel(dashResponse) ==
    IF ~IsMap(dashResponse.Dashboard) THEN <<>>
    ELSE LET panels == Index(dashResponse.Dashboard.v, "panels")
         IN  IF ~IsSlice(panels) \/ Len(panels.v) = 0 THEN <<>>
             ELSE panelsLoop(<<>>, <<panels.v[1]>>, 1)
extractPanelQueries(dashResponse) ==
    IF ~IsMap(dashResponse.Dashboard) THEN <<>>
    ELSE LET panels == Index(dashResponse.Dashboard.v, "panels")
         IN  IF ~IsSlice(panels) THEN <<>>
             ELSE panelsLoop(<<>>, panels.v, 1)

\* A slice built by `var s []T` and append only is nil until an element is
\* appended: extractPanelQueries returns nil for no queries.
isNilSlice(queries) == Len(queries) = 0

\* if len(queries) == 0 { queries = []PanelQuery{} }: whether the slice is
\* nil afterwards.
emptyNotNil_skipped(queries, isNil) == isNil
emptyNotNil(queries, isNil) == IF Len(queries) = 0 THEN FALSE ELSE isNil

\* json.MarshalIndent of a slice: a nil slice is null, any other an array.
marshalSlice(isNil) == IF isNil THEN "null" ELSE "array"

(***************************************************************************)
(* dashboard.getPanelQueriesHandler                                        *)
(***************************************************************************)
\* BindArguments, the uid check and newClient (get_panel_queries.go:17-29).
getPanelQueriesHandler_Call ==
    /\ pc = "idle"
    /\ \E uid \in UIDArgs :
        /\ Begin("getPanelQueriesHandler",
                 [Limit |-> 0, IncludeState |-> FALSE, UID |-> uid])
        /\ IF uid = "" THEN Return(ToolError("uid is required"))
           ELSE IF ~envOK THEN Return(ToolError("creating dashboard client"))
           ELSE pc' = "getDashboardByUID" /\ result' = NoResult

\* The handler from c.getDashboardByUID's answer to its return
\* (get_panel_queries.go:31-47).
getPanelQueriesHandler_answer(failed, err, response) ==
    /\ requests' = Do(requests,
           Request("GET", "/api/dashboards/uid/" \o params.UID, 0))
    /\ fetched' = [fetched EXCEPT
                      !.dashboard = IF failed THEN "failed" ELSE "ok"]
    /\ IF failed
       THEN /\ Return(ToolError(err))
            /\ UNCHANGED dashboard
       ELSE /\ dashboard' = response
            /\ LET queries == extractPanelQueries(response)
               IN  Return(ToolResultText(queries,
                       marshalSlice(emptyNotNil(queries, isNilSlice(queries)))))
    /\ UNCHANGED <<handler, params, rules, groups, env, inflight, transport>>

\* c.getDashboardByUID(ctx, uid): the upstream fails, or answers with a
\* document of any shape.
getPanelQueriesHandler_getDashboardByUID ==
    /\ pc = "getDashboardByUID"
    /\ handler = "getPanelQueriesHandler"
    /\ \/ \E resp \in Failures :
             getPanelQueriesHandler_answer(~fetchOK(resp), fetchErr(resp),
                                           NoDashboard)
       \/ \E d \in ShapelessDocuments \cup AnnotatedDocuments :
             getPanelQueriesHandler_answer(FALSE, "", Response(NoMeta, d))
       \/ \E n \in 0..MaxPanels : \E ps \in [1..n -> PanelPool] :
             getPanelQueriesHandler_answer(FALSE, "",
                 Response(DashboardMeta, DocumentOf(ps)))

(***************************************************************************)
(* Dashboards: buildSummary.                                               *)
(***************************************************************************)
PanelSummary(id, title, type, description, queryCount) ==
    [ID |-> id, Title |-> title, Type |-> type, Description |-> description,
     QueryCount |-> queryCount]

VariableSummary(name, type, label) ==
    [Name |-> name, Type |-> type, Label |-> label]

\* if v, ok := m[k].(string); ok { field = v }: the zero value otherwise.
stringField(m, k) == IF IsString(Index(m, k)) THEN Index(m, k).v ELSE ""

\* summary.Tags: the string elements of a tags sequence.
RECURSIVE tagsLoop(_, _)
tagsLoop(tags, i) ==
    IF i > Len(tags) THEN <<>>
    ELSE IF IsString(tags[i]) THEN <<tags[i].v>> \o tagsLoop(tags, i + 1)
    ELSE tagsLoop(tags, i + 1)

tagsOf(dashMap) ==
    IF IsSlice(Index(dashMap, "tags"))
    THEN tagsLoop(Index(dashMap, "tags").v, 1)
    ELSE <<>>

\* summary.PanelCount = len(panels)
panelCountOf_objects(panels) ==
    Cardinality({i \in DOMAIN panels : IsMap(panels[i])})
panelCountOf(panels) == Len(panels)

\* panelSummary.QueryCount = len(targets), when targets is a sequence.
queryCountOf_one(panelMap) ==
    IF IsSlice(Index(panelMap, "targets")) THEN 1 ELSE 0
queryCountOf(panelMap) ==
    IF IsSlice(Index(panelMap, "targets"))
    THEN Len(Index(panelMap, "targets").v)
    ELSE 0

\* The PanelSummary of one panel object (part_002:84-100).
panelSummaryOf(panelMap) ==
    PanelSummary(IF IsFloat(Index(panelMap, "id"))
                 THEN Index(panelMap, "id").v ELSE 0,
                 stringField(panelMap, "title"),
                 stringField(panelMap, "type"),
                 stringField(panelMap, "description"),
                 queryCountOf(panelMap))

\* summary.Panels: one PanelSummary per panel that is an object.
RECURSIVE panelSummaries(_, _)
panelSummaries(panels, i) ==
    IF i > Len(panels) THEN <<>>
    ELSE IF IsMap(panels[i])
         THEN <<panelSummaryOf(panels[i].v)>> \o panelSummaries(panels, i + 1)
         ELSE panelSummaries(panels, i + 1)

\* summary.Variables: one VariableSummary per object of templating.list.
RECURSIVE variablesLoop(_, _)
variablesLoop(list, i) ==
    IF i > Len(list) THEN <<>>
    ELSE IF IsMap(list[i])
         THEN <<VariableSummary(stringField(list[i].v, "name"),
                                stringField(list[i].v, "type"),
                                stringField(list[i].v, "label"))>>
              \o variablesLoop(list, i + 1)
         ELSE variablesLoop(list, i + 1)

variablesOf(dashMap) ==
    LET templating == Index(dashMap, "templating")
    IN  IF IsMap(templating) /\ IsSlice(Index(templating.v, "list"))
        THEN variablesLoop(Index(templating.v, "list").v, 1)
        ELSE <<>>

Summary(uid, meta, title, description, tags, panelCount, panels, variables) ==
    [UID |-> uid, Title |-> title, Description |-> description, Tags |-> tags,
     FolderTitle |-> meta.FolderTitle, URL |-> meta.URL,
     PanelCount |-> panelCount, Panels |-> panels, Variables |-> variables,
     Created |-> meta.Created, Updated |-> meta.Updated]

\* buildSummary builds a summary from a dashboard response.
buildSummary(uid, dashResponse) ==
    IF ~IsMap(dashResponse.Dashboard)
    THEN Summary(uid, dashResponse.Meta, "", "", <<>>, 0, <<>>, <<>>)
    ELSE LET dashMap == dashResponse.Dashboard.v
             panels == Index(dashMap, "panels")
         IN  Summary(uid, dashResponse.Meta,
                     stringField(dashMap, "title"),
                     stringField(dashMap, "description"),
                     tagsOf(dashMap),
                     IF IsSlice(panels) THEN panelCountOf(panels.v) ELSE 0,
                     IF IsSlice(panels) THEN panelSummaries(panels.v, 1)
                     ELSE <<>>,
                     variablesOf(dashMap))

(***************************************************************************)
(* dashboard.getSummaryHandler                                             *)
(***************************************************************************)
\* BindArguments, the uid check and newClient (part_002:17-29).
getSummaryHandler_Call ==
    /\ pc = "idle"
    /\ \E uid \in UIDArgs :
        /\ Begin("getSummaryHandler",
                 [Limit |-> 0, IncludeState |-> FALSE, UID |-> uid])
        /\ IF uid = "" THEN Return(ToolError("uid is required"))
           ELSE IF ~envOK THEN Return(ToolError("creating dashboard client"))
           ELSE pc' = "getDashboardByUID" /\ result' = NoResult

\* The handler from c.getDashboardByUID's answer to its return
\* (part_002:31-43).
getSummaryHandler_answer(failed, err, response) ==
    /\ requests' = Do(requests,
           Request("GET", "/api/dashboards/uid/" \o params.UID, 0))
    /\ fetched' = [fetched EXCEPT
                      !.dashboard = IF failed THEN "failed" ELSE "ok"]
    /\ IF failed
       THEN /\ Return(ToolError(err))
            /\ UNCHANGED dashboard
       ELSE /\ dashboard' = response
            /\ Return(ToolResultText(buildSummary(params.UID, response),
                                     "object"))
    /\ UNCHANGED <<handler, params, rules, groups, env, inflight, transport>>

getSummaryHandler_getDashboardByUID ==
    /\ pc = "getDashboardByUID"
    /\ handler = "getSummaryHandler"
    /\ \/ \E resp \in Failures :
             getSummaryHandler_answer(~fetchOK(resp), fetchErr(resp),
                                      NoDashboard)
       \/ \E d \in ShapelessDocuments \cup AnnotatedDocuments :
             getSummaryHandler_answer(FALSE, "", Response(NoMeta, d))
       \/ \E n \in 0..MaxPanels : \E ps \in [1..n -> PanelPool] :
             getSummaryHandler_answer(FALSE, "",
                 Response(DashboardMeta, DocumentOf(ps)))

NextDashboard ==
    \/ ResponseWritten
    \/ getPanelQueriesHandler_Call
    \/ getPanelQueriesHandler_getDashboardByUID
    \/ getSummaryHandler_Call
    \/ getSummaryHandler_getDashboardByUID

SpecDashboard == Init /\ [][NextDashboard]_vars

(***************************************************************************)
(* The tools of one upstream request. Each handler binds its arguments,    *)
(* checks some of them, creates its client, prepares the request and       *)
(* issues it; the handlers differ in the fields their schema requires, in  *)
(* the fields they check, in their client and in the endpoint.             *)
(***************************************************************************)
Tool(name, client, required, checked, parsesTime, path, wrap) ==
    [name |-> name, client |-> client, required |-> required,
     checked |-> checked, parsesTime |-> parsesTime, path |-> path,
     wrap |-> wrap]

getRuleByUIDHandler ==
    Tool("alerting.getRuleByUIDHandler", "alerting", {"uid"}, {"uid"}, FALSE,
         "/api/v1/provisioning/alert-rules/", "")
getAlertRuleByUIDHandler ==
    Tool("tools.getAlertRuleByUIDHandler", "alerting", {"uid"}, {"uid"}, FALSE,
         "/api/v1/provisioning/alert-rules/", "")
searchDashboardsHandler ==
    Tool("tools.searchDashboardsHandler", "dashboard", {}, {}, FALSE,
         "/api/search", "")
listLabelNamesHandler ==
    Tool("prometheus.listLabelNamesHandler", "prometheus", {"datasourceUid"},
         {}, TRUE, "/api/v1/labels", "")
listMetricNamesHandler ==
    Tool("prometheus.listMetricNamesHandler", "prometheus", {"datasourceUid"},
         {}, TRUE, "/api/v1/label/__name__/values", "")
listPrometheusMetricNamesHandler ==
    Tool("tools.listPrometheusMetricNamesHandler", "prometheus",
         {"datasourceUid"}, {}, TRUE, "/api/v1/label/__name__/values", "")
listLabelValuesHandler ==
    Tool("prometheus.listLabelValuesHandler", "prometheus",
         {"datasourceUid", "labelName"}, {"labelName"}, TRUE,
         "/api/v1/label/", "")
queryHandler ==
    Tool("prometheus.queryHandler", "prometheus", {"datasourceUid", "expr"},
         {"expr"}, TRUE, "/api/v1/query", "executing instant query: ")
getTraceHandler ==
    Tool("tempo.getTraceHandler", "tempo", {"datasourceUid", "traceId"},
         {"traceId"}, FALSE, "/api/traces/", "")
getTempoTraceHandler ==
    Tool("tools.getTempoTraceHandler", "tempo", {"datasourceUid", "traceId"},
         {"traceId"}, FALSE, "/api/traces/", "")
listTagValuesHandler ==
    Tool("tempo.listTagValuesHandler", "tempo", {"datasourceUid", "tagName"},
         {"tagName"}, TRUE, "/api/search/tag/", "")
listTempoTagValuesHandler ==
    Tool("tools.listTempoTagValuesHandler", "tempo",
         {"datasourceUid", "tagName"}, {"tagName"}, TRUE, "/api/search/tag/", "")
listTempoTagNamesHandler ==
    Tool("tools.listTempoTagNamesHandler", "tempo", {"datasourceUid"}, {},
         TRUE, "/api/search/tags", "")
searchTracesHandler ==
    Tool("tempo.searchTracesHandler", "tempo", {"datasourceUid"}, {}, TRUE,
         "/api/search", "")
searchTempoTracesHandler ==
    Tool("tools.searchTempoTracesHandler", "tempo", {"datasourceUid"}, {},
         TRUE, "/api/search", "")
queryLokiLogsHandler ==
    Tool("tools.queryLokiLogsHandler", "loki", {"datasourceUid", "logql"}, {},
         TRUE, "/loki/api/v1/query_range", "")
listLokiLabelValuesHandler ==
    Tool("tools.listLokiLabelValuesHandler", "loki",
         {"datasourceUid", "labelName"}, {}, FALSE, "/loki/api/v1/label/", "")
queryStatsHandler ==
    Tool("loki.queryStatsHandler", "loki", {"datasourceUid", "logql"}, {},
         TRUE, "/loki/api/v1/index/stats", "")

ToolHandlers ==
    {getRuleByUIDHandler, getAlertRuleByUIDHandler, searchDashboardsHandler,
     listLabelNamesHandler, listMetricNamesHandler,
     listPrometheusMetricNamesHandler, listLabelValuesHandler, queryHandler,
     getTraceHandler, getTempoTraceHandler, listTagValuesHandler,
     listTempoTagValuesHandler, listTempoTagNamesHandler, searchTracesHandler,
     searchTempoTracesHandler, queryLokiLogsHandler,
     listLokiLabelValuesHandler, queryStatsHandler}

HandlerNamed(name) == CHOOSE h \in ToolHandlers : h.name = name

\* The value of a string argument: absent or empty, or given.
ArgValues == {"", "x"}

\* limitedReader := io.LimitReader(resp.Body, 1024*1024*48)
LokiBodyLimit == 1024 * 1024 * 48

\* What an endpoint may answer to a tool's request.
ToolAnswers ==
    Failures \cup
    {Answer("status", 502, "huge", LokiBodyLimit + 1),
     Answer("decode", StatusOK, "", 0),
     Answer("ok", StatusOK, "{}", 2),
     Answer("ok", StatusOK, "huge", LokiBodyLimit + 1)}

\* client.makeRequest of the Loki clients: the status is checked first and
\* the body of a failed answer is read whole; the body of a 200 answer is
\* read through the limited reader, and an empty one is an error.
lokiMakeRequest(resp) ==
    IF resp.kind = "transport"
    THEN [ok |-> FALSE, err |-> "executing request", body |-> "", read |-> 0]
    ELSE IF resp.status # StatusOK
         THEN [ok |-> FALSE,
               err |-> "loki API returned status code "
                       \o ToString(resp.status) \o ": " \o resp.body,
               body |-> "", read |-> resp.size]
         ELSE LET read == IF resp.size > LokiBodyLimit THEN LokiBodyLimit
                          ELSE resp.size
              IN  IF read = 0
                  THEN [ok |-> FALSE, err |-> "empty response from Loki API",
                        body |-> "", read |-> 0]
                  ELSE [ok |-> TRUE, err |-> "",
                        body |-> IF read < resp.size THEN "truncated"
                                 ELSE resp.body,
                        read |-> read]

\* The makeRequest of a tool's client.
clientRequest(client, resp) ==
    IF client = "loki" THEN lokiMakeRequest(resp) ELSE makeRequest(resp)

\* json.Unmarshal of the body makeRequest returned.
decodes(resp, got) == resp.kind = "ok" /\ got.body = resp.body

\* return mcp.NewToolResultError(err.Error()), nil
toolFailure_asGoError(msg) ==
    [isError |-> FALSE, text |-> "", content |-> <<>>, json |-> "",
     err |-> msg]
toolFailure(msg) == ToolError(msg)

\* if params.X == "" { return mcp.NewToolResultError("X is required"), nil }
emptyChecked_none(h, args) == {}
emptyChecked(h, args) == {f \in h.checked : args[f] = ""}

\* The text of the error for an empty checked field.
requiredMessage(f) ==
    IF f = "expr" THEN "expr (PromQL expression) is required"
    ELSE f \o " is required"

\* The largest limit a call of query_loki_logs asks for.
MaxLogLimitArg == 101

DefaultLokiLogLimit == 10
MaxLokiLogLimit == 100

enforceLogLimit_uncapped(requestedLimit) ==
    IF requestedLimit <= 0 THEN DefaultLokiLogLimit ELSE requestedLimit
enforceLogLimit(requestedLimit) ==
    IF requestedLimit <= 0 THEN DefaultLokiLogLimit
    ELSE IF requestedLimit > MaxLokiLogLimit THEN MaxLokiLogLimit
    ELSE requestedLimit

(***************************************************************************)
(* The metric names tools: the regex filter and the limit. A name and the  *)
(* source of a regex are sequences of characters; the regexes are literals *)
(* with an optional "^" in front and "$" behind, and "(" does not compile. *)
(***************************************************************************)
MaxNames == 3
MaxNameLimit == 2

DefaultPrometheusLimit == 100

MetricHandlers ==
    {listMetricNamesHandler.name, listPrometheusMetricNamesHandler.name}


\* regexp.Compile
Compile(src) ==
    IF \E i \in DOMAIN src : src[i] = "("
    THEN [ok |-> FALSE, start |-> FALSE, end |-> FALSE, lit |-> <<>>]
    ELSE LET start == Len(src) > 0 /\ src[1] = "^"
             rest == IF start THEN Tail(src) ELSE src
             end == Len(rest) > 0 /\ rest[Len(rest)] = "$"
         IN  [ok |-> TRUE, start |-> start, end |-> end,
              lit |-> IF end THEN SubSeq(rest, 1, Len(rest) - 1) ELSE rest]

\* re.MatchString(name): the literal occurs in the name, at its start or at
\* its end where the regex is anchored.
MatchString(re, name) ==
    \E o \in 0..(Len(name) - Len(re.lit)) :
        /\ SubSeq(name, o + 1, o + Len(re.lit)) = re.lit
        /\ re.start => o = 0
        /\ re.end => o + Len(re.lit) = Len(name)

\* enforcePrometheusLimit ensures the limit doesn't exceed the maximum.
enforcePrometheusLimit(requestedLimit, maxLimit) ==
    IF requestedLimit <= 0 THEN DefaultPrometheusLimit
    ELSE IF maxLimit > 0 /\ requestedLimit > maxLimit THEN maxLimit
    ELSE requestedLimit

\* The handler from the names fetched to the names returned: the filter
\* loop keeps the names that match when a regex is given, and then
\* metricNames = metricNames[:limit] when len(metricNames) > limit.
filterAndLimit_limitFirst(names, regex, requestedLimit) ==
    LET limit == enforcePrometheusLimit(requestedLimit, 0)
        limited == IF Len(names) > limit THEN SubSeq(names, 1, limit)
                   ELSE names
    IN  IF regex = <<>> THEN limited
        ELSE SelectSeq(limited, LAMBDA n : MatchString(Compile(regex), n))
filterAndLimit(names, regex, requestedLimit) ==
    LET limit == enforcePrometheusLimit(requestedLimit, 0)
        filtered ==
            IF regex = <<>> THEN names
            ELSE SelectSeq(names, LAMBDA n : MatchString(Compile(regex), n))
    IN  IF Len(filtered) > limit THEN SubSeq(filtered, 1, limit)
        ELSE filtered

\* The limits a call may ask for: query_loki_logs and the metric names
\* tools bind params.Limit.
limitArgs(h) ==
    IF h.name = queryLokiLogsHandler.name THEN -1..MaxLogLimitArg
    ELSE IF h.name \in MetricHandlers THEN 0..MaxNameLimit
    ELSE {0}

\* The regexes a call may give: the metric names tools bind params.Regex.
regexArgs(h) ==
    IF h.name \in MetricHandlers
    THEN {<<>>, <<"^", "u">>, <<"u", "p">>, <<"p", "$">>, <<"(">>}
    ELSE {<<>>}

\* The answers of the tool's endpoint: the label values endpoint answers
\* the metric names tools with a list of names.
toolAnswers(h) ==
    IF h.name \in MetricHandlers
    THEN Failures \cup
         {[kind |-> "ok", status |-> StatusOK, body |-> "{}", size |-> 2,
           names |-> ns] :
            ns \in SeqUpTo({<<"u", "p">>, <<"p", "u", "p">>, <<"p">>},
                           MaxNames)}
    ELSE ToolAnswers

\* The result of the handler after a successful fetch; the metric names
\* tools compile the regex then, and filter and limit the names.
toolResult(h, p, resp, got) ==
    IF h.name \notin MetricHandlers THEN ToolResultText(got.body, "value")
    ELSE IF p.Regex # <<>> /\ ~Compile(p.Regex).ok
         THEN ToolError("invalid regex")
         ELSE ToolResultText(filterAndLimit(resp.names, p.Regex, p.Limit),
                             "array")

\* The limit parameter of the request: limit := enforceLogLimit(params.Limit)
\* and params.Add("limit", strconv.Itoa(limit)) in fetchLogs.
sentLimit(h, requestedLimit) ==
    IF h.name = queryLokiLogsHandler.name THEN enforceLogLimit(requestedLimit)
    ELSE 0

\* BindArguments, the checks of the arguments, the creation of the client
\* and the preparation of the request.
toolHandler_Call ==
    /\ pc = "idle"
    /\ \E h \in ToolHandlers :
       \E args \in [h.required -> ArgValues], timeOK \in BOOLEAN,
          limit \in limitArgs(h), regex \in regexArgs(h) :
        /\ Begin(h.name, [Limit |-> limit, IncludeState |-> FALSE, UID |-> "",
                          Args |-> args, Regex |-> regex])
        /\ IF emptyChecked(h, args) # {}
           THEN Return(ToolError(requiredMessage(
                    CHOOSE f \in emptyChecked(h, args) : TRUE)))
           ELSE IF ~envOK THEN Return(ToolError("creating client"))
           ELSE IF h.parsesTime /\ ~timeOK
                THEN Return(ToolError("parsing time"))
                ELSE pc' = "makeRequest" /\ result' = NoResult

\* The request, the decoding of its answer and the handler's return.
toolHandler_makeRequest ==
    /\ pc = "makeRequest"
    /\ \E resp \in toolAnswers(HandlerNamed(handler)) :
        LET h == HandlerNamed(handler)
            got == clientRequest(h.client, resp)
        IN  /\ requests' = Do(requests,
                   Request("GET", h.path, sentLimit(h, params.Limit)))
            /\ fetched' = [fetched EXCEPT !.answer = resp, !.read = got.read]
            /\ IF ~got.ok THEN Return(toolFailure(h.wrap \o got.err))
               ELSE IF ~decodes(resp, got)
                    THEN Return(toolFailure(h.wrap \o "unmarshalling"))
                    ELSE Return(toolResult(h, params, resp, got))
            /\ UNCHANGED <<handler, params, rules, groups, dashboard, env,
                           inflight, transport>>

(***************************************************************************)
(* resources.datasourcesHandler                                            *)
(***************************************************************************)
\* return nil, fmt.Errorf(...): a resource handler fails with a Go error.
ResourceError(msg) ==
    [isError |-> FALSE, text |-> "", content |-> <<>>, json |-> "",
     err |-> msg]

\* grafana.GetHTTPClientForGrafana (datasources.go:40-44).
datasourcesHandler_Call ==
    /\ pc = "idle"
    /\ Begin("resources.datasourcesHandler",
             [Limit |-> 0, IncludeState |-> FALSE, UID |-> ""])
    /\ IF ~envOK THEN Return(ResourceError("creating Grafana client"))
       ELSE pc' = "datasources" /\ result' = NoResult

\* The request, the decoding and the listing (datasources.go:46-108).
datasourcesHandler_Do ==
    /\ pc = "datasources"
    /\ \E resp \in ToolAnswers :
        /\ requests' = Do(requests, Request("GET", "/api/datasources", 0))
        /\ fetched' = [fetched EXCEPT
               !.answer = resp,
               !.read = IF resp.kind = "transport" THEN 0 ELSE resp.size]
        /\ IF resp.kind = "transport"
           THEN Return(ResourceError("fetching datasources"))
           ELSE IF resp.status # StatusOK
                THEN Return(ResourceError(statusError(resp.status, resp.body)))
                ELSE IF resp.kind # "ok"
                     THEN Return(ResourceError("decoding response"))
                     ELSE Return(ToolResultText(resp.body, "array"))
        /\ UNCHANGED <<handler, params, rules, groups, dashboard, env, inflight, transport>>

NextTools ==
    \/ ResponseWritten
    \/ toolHandler_Call
    \/ toolHandler_makeRequest
    \/ datasourcesHandler_Call
    \/ datasourcesHandler_Do

SpecTools == Init /\ [][NextTools]_vars

(***************************************************************************)
(* uint64String.UnmarshalJSON: a 64-bit unsigned number carried as a JSON  *)
(* string. A number is a sequence of decimal digits without leading zeros. *)
(***************************************************************************)
MaxDigits == 3

Zero == <<0>>
MaxUint64 == <<1, 8, 4, 4, 6, 7, 4, 4, 0, 7, 3, 7, 0, 9, 5, 5, 1, 6, 1, 5>>
\* cutoff := maxUint64/10 + 1 (strconv.ParseUint, base 10).
Cutoff == <<1, 8, 4, 4, 6, 7, 4, 4, 0, 7, 3, 7, 0, 9, 5, 5, 1, 6, 2>>

Less(a, b) ==
    \/ Len(a) < Len(b)
    \/ /\ Len(a) = Len(b)
       /\ \E i \in 1..Len(a) :
            a[i] < b[i] /\ \A j \in 1..(i - 1) : a[j] = b[j]

\* n*10 + d
mul10add(n, d) == IF n = Zero THEN <<d>> ELSE Append(n, d)

DigitValue ==
    [c \in {"0", "1", "2", "3", "4", "5", "6", "7", "8", "9"} |->
        CASE c = "0" -> 0 [] c = "1" -> 1 [] c = "2" -> 2 [] c = "3" -> 3
          [] c = "4" -> 4 [] c = "5" -> 5 [] c = "6" -> 6 [] c = "7" -> 7
          [] c = "8" -> 8 [] c = "9" -> 9]

Parsed(value) == [ok |-> TRUE, value |-> value, err |-> NilError]
ParseError(msg) == [ok |-> FALSE, value |-> Zero, err |-> msg]

\* The loop of strconv.ParseUint(s, 10, 64) over the characters of s.
RECURSIVE parseLoop(_, _, _)
parseLoop(s, i, n) ==
    IF i > Len(s) THEN Parsed(n)
    ELSE IF s[i] \notin DOMAIN DigitValue THEN ParseError("invalid syntax")
    ELSE IF ~Less(n, Cutoff) THEN ParseError("value out of range")
    ELSE LET n1 == mul10add(n, DigitValue[s[i]])
         IN  IF Less(MaxUint64, n1) THEN ParseError("value out of range")
             ELSE parseLoop(s, i + 1, n1)

ParseUint(s) ==
    IF s = <<>> THEN ParseError("invalid syntax") ELSE parseLoop(s, 1, Zero)

\* A JSON token: a string of characters, a number or null.
Token(kind, s) == [kind |-> kind, s |-> s]

UnmarshalJSON_emptyParsed(b) ==
    IF b.kind = "number" THEN ParseError("json: cannot unmarshal number")
    ELSE LET v == ParseUint(b.s)
         IN  IF ~v.ok
             THEN ParseError("parsing uint64 from string: " \o v.err)
             ELSE v
UnmarshalJSON(b) ==
    IF b.kind = "number" THEN ParseError("json: cannot unmarshal number")
    ELSE IF b.s = <<>> THEN Parsed(Zero)
    ELSE LET v == ParseUint(b.s)
         IN  IF ~v.ok
             THEN ParseError("parsing uint64 from string: " \o v.err)
             ELSE v

\* The characters of the short strings, and the long strings.
Chars == {"0", "1", "9", "a", "-"}
CharsOf(ds) == [i \in 1..Len(ds) |-> ToString(ds[i])]
LongStrings ==
    {CharsOf(<<1, 2, 3, 4, 5, 6, 7, 8, 9, 0, 1, 2, 3, 4>>),
     CharsOf(MaxUint64),
     CharsOf(<<0, 0, 0>> \o MaxUint64),
     CharsOf(<<1, 8, 4, 4, 6, 7, 4, 4, 0, 7, 3, 7, 0, 9, 5, 5, 1, 6, 1, 6>>),
     CharsOf(<<1, 8, 4, 4, 6, 7, 4, 4, 0, 7, 3, 7, 0, 9, 5, 5, 1, 6, 2, 0>>),
     CharsOf(<<9>> \o MaxUint64),
     CharsOf(<<0, 0, 0, 0, 0, 0, 0, 0, 0, 0, 0, 0, 0, 0, 0, 0, 0, 0, 0, 0, 7>>),
     <<"1", "2", " ">>, <<"+", "5">>, <<"1", ".", "5">>}

\* The decoding of one token.
UnmarshalJSON_Call ==
    /\ pc = "idle"
    /\ \E b \in {Token("number", <<"1">>), Token("null", <<>>)}
              \cup {Token("string", s) : s \in LongStrings}
              \cup {Token("string", s) :
                       s \in UNION {[1..n -> Chars] : n \in 0..MaxDigits}} :
        /\ Begin("uint64String.UnmarshalJSON",
                 [Limit |-> 0, IncludeState |-> FALSE, UID |-> "", Token |-> b])
        /\ LET v == UnmarshalJSON(b)
           IN  Return([isError |-> FALSE, text |-> "", content |-> v.value,
                       json |-> "uint64", err |-> v.err])

NextCodec == ResponseWritten \/ UnmarshalJSON_Call

SpecCodec == Init /\ [][NextCodec]_vars

(***************************************************************************)
(* Invocations in flight together: the steps of one of them, taken in any  *)
(* order with the steps of the others.                                     *)
(***************************************************************************)
\* The handler's return for the answer to its request.
resultOf(resp) ==
    LET got == makeRequest(resp)
    IN  IF ~got.ok THEN toolFailure(got.err)
        ELSE IF ~decodes(resp, got) THEN toolFailure("unmarshalling")
        ELSE ToolResultText(got.body, "value")

\* t.transport.RoundTrip(req) takes the connection for the request: an idle
\* one of the transport, which then is idle no more, or a new one.
getConn(t) ==
    IF t.idle # {}
    THEN {[conn |-> c, idle |-> t.idle \ {c}] : c \in t.idle}
    ELSE {[conn |-> Cardinality(t.conns) + 1, idle |-> t.idle]}

\* newClient: the invocation's own http.Client and bearerAuthTransport.
invocation_newClient(i) ==
    /\ inflight[i].pc = "idle"
    /\ LET got == GetHTTPClientForGrafana(env)
       IN  inflight' =
             [inflight EXCEPT ![i] =
                IF got.err # NilError
                THEN [@ EXCEPT !.pc = "done",
                               !.result = ToolError("creating client")]
                ELSE [@ EXCEPT !.pc = "newClient",
                               !.client = httpClient(i, got.apiKey)]]
    /\ UNCHANGED transport
    /\ UNCHANGED <<pc, handler, params, requests, rules, groups, fetched,
                   dashboard, result, env>>

\* c.httpClient.Do(req): bearerAuthTransport.RoundTrip hands the request to
\* http.DefaultTransport, which writes it on a connection.
invocation_RoundTrip(i) ==
    /\ inflight[i].pc = "newClient"
    /\ \E resp \in ToolAnswers, got \in getConn(transport) :
        /\ inflight' = [inflight EXCEPT ![i] =
               [@ EXCEPT !.pc = "sent", !.conn = got.conn, !.answer = resp]]
        /\ transport' =
               [conns |-> transport.conns \cup {got.conn},
                idle |-> got.idle,
                wire |-> [c \in transport.conns \cup {got.conn} |->
                            IF c = got.conn THEN resp
                            ELSE transport.wire[c]]]
    /\ UNCHANGED <<pc, handler, params, requests, rules, groups, fetched,
                   dashboard, result, env>>

\* The answer on the invocation's connection is read, the body is closed,
\* which gives the connection back to the transport, and the handler returns.
invocation_Return(i) ==
    /\ inflight[i].pc = "sent"
    /\ LET c == inflight[i].conn
       IN  /\ inflight' = [inflight EXCEPT ![i] =
                  [@ EXCEPT !.pc = "done",
                            !.result = resultOf(transport.wire[c])]]
           /\ transport' = [transport EXCEPT !.idle = @ \cup {c}]
    /\ UNCHANGED <<pc, handler, params, requests, rules, groups, fetched,
                   dashboard, result, env>>

\* The result is written to the caller and the frame is gone.
invocation_ResponseWritten(i) ==
    /\ inflight[i].pc = "done"
    /\ inflight' = [inflight EXCEPT ![i] = NoInvocations[i]]
    /\ UNCHANGED transport
    /\ UNCHANGED <<pc, handler, params, requests, rules, groups, fetched,
                   dashboard, result, env>>

NextConcurrent ==
    \E i \in 1..MaxInvocations :
        \/ invocation_newClient(i)
        \/ invocation_RoundTrip(i)
        \/ invocation_Return(i)
        \/ invocation_ResponseWritten(i)

\* Several invocations in flight together.
SpecConcurrent == Init /\ [][NextConcurrent]_vars

\* One invocation at a time.
Next == NextRules \/ NextDashboard \/ NextTools \/ NextCodec

Spec == Init /\ [][Next]_vars

(***************************************************************************)
(* Claims about get_dashboard_panel_queries.                               *)
(***************************************************************************)
\* get_dashboard_panel_queries has returned the queries of `dashboard`.
QueriesReturned ==
    /\ pc = "done"
    /\ handler = "getPanelQueriesHandler"
    /\ ~result.isError

\* The document's panels sequence and a panel's targets sequence, empty
\* where the document has none.
DocPanels ==
    IF IsMap(dashboard.Dashboard)
       /\ "panels" \in DOMAIN dashboard.Dashboard.v
       /\ IsSlice(dashboard.Dashboard.v["panels"])
    THEN dashboard.Dashboard.v["panels"].v
    ELSE <<>>

PanelTargets(i) ==
    IF IsMap(DocPanels[i])
       /\ "targets" \in DOMAIN DocPanels[i].v
       /\ IsSlice(DocPanels[i].v["targets"])
    THEN DocPanels[i].v["targets"].v
    ELSE <<>>

\* Every panel's targets field is a sequence or absent.
TargetsAreSequences ==
    \A i \in DOMAIN DocPanels :
        IsMap(DocPanels[i]) /\ "targets" \in DOMAIN DocPanels[i].v
        => IsSlice(DocPanels[i].v["targets"])

\* The places <<panel, target>> of the document's target elements, and of
\* those that are objects (the target nodes).
TargetPlaces ==
    UNION {{<<i, j>> : j \in DOMAIN PanelTargets(i)} : i \in DOMAIN DocPanels}

TargetNodes == {pl \in TargetPlaces : IsMap(PanelTargets(pl[1])[pl[2]])}

Before(a, b) == a[1] < b[1] \/ (a[1] = b[1] /\ a[2] < b[2])

\* The rank of a target node among the target nodes, in document order.
RankAmong(nodes, pl) == Cardinality({q \in nodes : Before(q, pl)}) + 1
Rank(pl) == RankAmong(TargetNodes, pl)

NodeAt(pl) == PanelTargets(pl[1])[pl[2]].v

\* The string at key k of object m, "" when absent or no string.
StringAt(m, k) == IF k \in DOMAIN m /\ IsString(m[k]) THEN m[k].v ELSE ""
HasString(m, k) == k \in DOMAIN m /\ IsString(m[k])
HasObject(m, k) == k \in DOMAIN m /\ IsMap(m[k])

\* C7 as stated: when panels and targets are sequences, the number of
\* PanelQuery entries is the sum of the lengths of the targets sequences.
C7_CountIsSumOfTargetLengths ==
    (QueriesReturned /\ TargetsAreSequences)
    => Len(result.content) = Cardinality(TargetPlaces)

\* C7 as amended: the number of PanelQuery entries is the number of elements
\* of the targets sequences that are objects; an element that is no object
\* yields no entry.
C7_CountIsNumberOfTargetNodes ==
    QueriesReturned => Len(result.content) = Cardinality(TargetNodes)

\* Two panels, three target elements of which one is no object, two entries.
C7_Witness ==
    /\ QueriesReturned
    /\ TargetsAreSequences
    /\ Len(DocPanels) = 2
    /\ Cardinality(TargetPlaces) = 3
    /\ Cardinality(TargetNodes) = 2
    /\ Len(result.content) = 2

\* The datasource field f ("uid" or "type") owed to the target node at pl.
ResolvedDatasource(pl, f) ==
    LET target == NodeAt(pl)
        panel == DocPanels[pl[1]].v
    IN  IF HasObject(target, "datasource")
           /\ HasString(target["datasource"].v, f)
        THEN target["datasource"].v[f].v
        ELSE IF HasObject(panel, "datasource")
                /\ HasString(panel["datasource"].v, f)
             THEN panel["datasource"].v[f].v
             ELSE ""

\* C8: DatasourceUID is the target's uid when it has one, else the panel's,
\* else empty; DatasourceType likewise and independently.
C8_DatasourceResolvedPerField ==
    QueriesReturned =>
        LET nodes == TargetNodes
        IN  \A pl \in nodes :
                LET k == RankAmong(nodes, pl)
                IN  /\ k \in DOMAIN result.content
                    /\ result.content[k].DatasourceUID
                         = ResolvedDatasource(pl, "uid")
                    /\ result.content[k].DatasourceType
                         = ResolvedDatasource(pl, "type")

\* A panel with uid and type whose first target overrides nothing and whose
\* second overrides the uid only.
C8_Witness ==
    /\ QueriesReturned
    /\ \E i \in DOMAIN DocPanels :
          /\ PanelTargets(i) = <<PlainTarget, UIDOnlyTarget>>
          /\ HasObject(DocPanels[i].v, "datasource")
          /\ result.content[Rank(<<i, 1>>)].DatasourceUID = "ds1"
          /\ result.content[Rank(<<i, 1>>)].DatasourceType = "prometheus"
          /\ result.content[Rank(<<i, 2>>)].DatasourceUID = "ds2"
          /\ result.content[Rank(<<i, 2>>)].DatasourceType = "prometheus"

\* C9: QueryExpr is expr when expr is a non-empty string, else query when
\* query is a non-empty string, else empty.
C9_ExprBeforeQuery ==
    QueriesReturned =>
        LET nodes == TargetNodes
        IN  \A pl \in nodes :
                LET k == RankAmong(nodes, pl)
                    target == NodeAt(pl)
                IN  /\ k \in DOMAIN result.content
                    /\ result.content[k].QueryExpr
                         = IF StringAt(target, "expr") # ""
                           THEN StringAt(target, "expr")
                           ELSE StringAt(target, "query")

\* A target with expr and query both set, and one whose expr is empty.
C9_Witness ==
    /\ QueriesReturned
    /\ \E pl \in TargetNodes :
          /\ NodeAt(pl) = UIDOnlyTarget.v
          /\ result.content[Rank(pl)].QueryExpr = "rate"
    /\ \E pl \in TargetNodes :
          /\ NodeAt(pl) = TypeOnlyTarget.v
          /\ result.content[Rank(pl)].QueryExpr = "sel"

\* C10: the entries stand in document order: the entry of rank k is the one
\* of the k-th target node, panels first and targets within a panel.
C10_DocumentOrder ==
    QueriesReturned =>
        LET nodes == TargetNodes
        IN  /\ Len(result.content) = Cardinality(nodes)
            /\ \A pl \in nodes :
                  LET k == RankAmong(nodes, pl)
                  IN  /\ k \in DOMAIN result.content
                      /\ result.content[k].RawQuery = NodeAt(pl)
                      /\ result.content[k].PanelTitle
                           = StringAt(DocPanels[pl[1]].v, "title")

\* Two panels with different titles and targets; the first has two targets.
C10_Witness ==
    /\ QueriesReturned
    /\ Len(DocPanels) = 2
    /\ PanelTargets(1) = <<UIDOnlyTarget, TypeOnlyTarget>>
    /\ PanelTargets(2) = <<PlainTarget>>
    /\ Len(result.content) = 3
    /\ result.content[1].PanelTitle = "CPU"
    /\ result.content[3].PanelTitle = ""

(***************************************************************************)
(* Claims about get_dashboard_summary and about document shape.            *)
(***************************************************************************)
DashboardHandlers == {"getPanelQueriesHandler", "getSummaryHandler"}

\* A dashboard tool has fetched a document and returned.
DashboardFetched ==
    /\ pc = "done"
    /\ handler \in DashboardHandlers
    /\ fetched.dashboard = "ok"

SummaryReturned ==
    /\ pc = "done"
    /\ handler = "getSummaryHandler"
    /\ ~result.isError

\* The document has a panels sequence.
HasPanels ==
    /\ IsMap(dashboard.Dashboard)
    /\ "panels" \in DOMAIN dashboard.Dashboard.v
    /\ IsSlice(dashboard.Dashboard.v["panels"])

\* The string at key k of the document, "" when the document is no object
\* or the key is absent or no string.
DocString(k) ==
    IF IsMap(dashboard.Dashboard) THEN StringAt(dashboard.Dashboard.v, k)
    ELSE ""

\* C11: whatever the shape of a fetched document, both dashboard tools
\* return a success result; the panel queries are a JSON array (never null),
\* empty when the document has no panels sequence, and hold no entry for a
\* panel without a targets sequence; the summary holds the zero value for
\* every field that is absent or of the wrong type.
C11_ShapeNeverFails ==
    DashboardFetched =>
        /\ ~result.isError
        /\ handler = "getPanelQueriesHandler" =>
              /\ result.json = "array"
              /\ ~HasPanels => result.content = <<>>
              /\ Len(result.content) <= Cardinality(TargetPlaces)
        /\ handler = "getSummaryHandler" =>
              /\ result.json = "object"
              /\ result.content.Title = DocString("title")
              /\ result.content.Description = DocString("description")
              /\ ~HasPanels =>
                    /\ result.content.PanelCount = 0
                    /\ result.content.Panels = <<>>

\* A fetched document that is no object, and the empty array returned.
C11_Witness ==
    /\ DashboardFetched
    /\ handler = "getPanelQueriesHandler"
    /\ dashboard.Dashboard = JNil
    /\ result.content = <<>>
    /\ result.json = "array"

\* The panels of the document that are objects, and the rank of one among
\* them in document order.
ObjectPanels == {i \in DOMAIN DocPanels : IsMap(DocPanels[i])}
PanelRank(i) == Cardinality({j \in ObjectPanels : j < i}) + 1

\* C12: PanelCount is the length of the panels sequence, and the QueryCount
\* of each PanelSummary is the length of its panel's targets sequence, 0
\* when targets is absent or no sequence.
C12_CountsAreLengths ==
    SummaryReturned =>
        /\ result.content.PanelCount = Len(DocPanels)
        /\ \A i \in ObjectPanels :
              /\ PanelRank(i) \in DOMAIN result.content.Panels
              /\ result.content.Panels[PanelRank(i)].QueryCount
                   = Len(PanelTargets(i))

\* Two panels, the first with two targets and the second with a targets
\* field that is no sequence.
C12_Witness ==
    /\ SummaryReturned
    /\ Len(DocPanels) = 2
    /\ ObjectPanels = {1, 2}
    /\ Len(PanelTargets(1)) = 2
    /\ "targets" \in DOMAIN DocPanels[2].v
    /\ ~IsSlice(DocPanels[2].v["targets"])
    /\ result.content.PanelCount = 2
    /\ result.content.Panels[1].QueryCount = 2
    /\ result.content.Panels[2].QueryCount = 0

\* C13: the RawQuery of each PanelQuery is its target node with every key
\* and every value it has in the document, and no other key.
C13_RawQueryIsTargetNode ==
    QueriesReturned =>
        LET nodes == TargetNodes
        IN  \A pl \in nodes :
                LET k == RankAmong(nodes, pl)
                IN  /\ k \in DOMAIN result.content
                    /\ DOMAIN result.content[k].RawQuery = DOMAIN NodeAt(pl)
                    /\ \A key \in DOMAIN NodeAt(pl) :
                          result.content[k].RawQuery[key] = NodeAt(pl)[key]

\* A target node with a datasource of its own, whose datasource, expr and
\* query were read, with all its keys in the raw payload.
C13_Witness ==
    /\ QueriesReturned
    /\ \E pl \in TargetNodes :
          /\ NodeAt(pl) = TypeOnlyTarget.v
          /\ Rank(pl) \in DOMAIN result.content
          /\ DOMAIN result.content[Rank(pl)].RawQuery
               = {"refId", "datasource", "expr", "query"}
          /\ result.content[Rank(pl)].DatasourceType = "loki"

(***************************************************************************)
(* Claims about the tools of one upstream request.                         *)
(***************************************************************************)
ToolNames == {h.name : h \in ToolHandlers}
ToolCall == handler \in ToolNames
AllToolNames ==
    ToolNames \cup {"listRulesHandler", "listAlertRulesHandler",
                    "getPanelQueriesHandler", "getSummaryHandler"}
UIDHandlers == {getRuleByUIDHandler.name, getAlertRuleByUIDHandler.name}
EmptyRequired == {f \in DOMAIN params.Args : params.Args[f] = ""}
Answered == fetched.answer.kind # "none"
StatusMessages ==
    {HandlerNamed(handler).wrap \o prefix \o ToString(fetched.answer.status)
        \o ": " \o fetched.answer.body :
        prefix \in {"API returned status ", "loki API returned status code "}}

\* C14: a get-rule-by-UID call whose UID is empty ends as the tool error
\* "uid is required" and issues no request: the call never reaches the
\* request step.
C14_EmptyUIDRejectedBeforeRequest ==
    (handler \in UIDHandlers /\ params.Args["uid"] = "")
        => /\ pc = "done"
           /\ result.isError
           /\ result.text = "uid is required"
           /\ requests = <<>>
C14_Witness ==
    /\ pc = "done"
    /\ handler = getAlertRuleByUIDHandler.name
    /\ params.Args["uid"] = ""
    /\ result.isError
    /\ requests = <<>>

\* C15 (as the claim states it): a tool call with an empty required field
\* ends as a tool error and issues no request.
C15_EmptyRequiredRejected ==
    (ToolCall /\ EmptyRequired # {})
        => /\ pc = "done"
           /\ result.isError
           /\ requests = <<>>

\* C16: a finished tool call carries a nil Go error, whatever its path; its
\* failures are tool error results.
C16_NilTransportError ==
    (pc = "done" /\ handler \in AllToolNames) => result.err = NilError
C16_Witness ==
    /\ pc = "done"
    /\ ToolCall
    /\ fetched.answer.kind = "decode"
    /\ result.isError
    /\ result.err = NilError

C19_BodyReadBounded ==
    (ToolCall /\ HandlerNamed(handler).client \in {"loki", "tempo"})
        => fetched.read <= LokiBodyLimit

\* C20: every request issued so far used GET and carried no body.
C20_ReadOnly ==
    \A i \in 1..Len(requests) :
        requests[i].method = "GET" /\ requests[i].body = "nil"
C20_Witness ==
    /\ pc = "done"
    /\ handler = "resources.datasourcesHandler"
    /\ Len(requests) = 1
    /\ requests[1].method = "GET"
    /\ requests[1].body = "nil"

(***************************************************************************)
(* Claims about uint64String.                                              *)
(***************************************************************************)
Decoded == pc = "done" /\ handler = "uint64String.UnmarshalJSON"
DecodedString == Decoded /\ params.Token.kind = "string"
AllDigits(s) == \A i \in 1..Len(s) : s[i] \in DOMAIN DigitValue
DigitsOf(s) == [i \in 1..Len(s) |-> DigitValue[s[i]]]
RECURSIVE stripZeros(_)
stripZeros(ds) ==
    IF Len(ds) > 1 /\ ds[1] = 0 THEN stripZeros(Tail(ds)) ELSE ds
\* The number a string of digits denotes.
Denoted(s) == stripZeros(DigitsOf(s))
RECURSIVE Pow10(_)
Pow10(k) == IF k = 0 THEN 1 ELSE 10 * Pow10(k - 1)
RECURSIVE PositionalSum(_, _)
PositionalSum(ds, i) ==
    IF i > Len(ds) THEN 0
    ELSE ds[i] * Pow10(Len(ds) - i) + PositionalSum(ds, i + 1)
ShortValue(ds) == PositionalSum(ds, 1)

\* C18: of a JSON string, the empty one decodes to 0; a string of decimal
\* digits denoting a number of at most 2^64-1 decodes to that number; every
\* other string, non-numeric or out of range, is a decode error.
C18_Uint64StringDecoding ==
    DecodedString =>
        LET s == params.Token.s
        IN  IF s = <<>>
            THEN result.err = NilError /\ result.content = Zero
            ELSE IF AllDigits(s) /\ ~Less(MaxUint64, Denoted(s))
            THEN /\ result.err = NilError
                 /\ result.content = Denoted(s)
                 /\ Len(s) <= 9
                      => ShortValue(result.content) = ShortValue(DigitsOf(s))
            ELSE result.err # NilError
C18_Witness ==
    /\ DecodedString
    /\ params.Token.s = CharsOf(<<1, 2, 3, 4, 5, 6, 7, 8, 9, 0, 1, 2, 3, 4>>)
    /\ result.err = NilError
    /\ result.content = <<1, 2, 3, 4, 5, 6, 7, 8, 9, 0, 1, 2, 3, 4>>

(***************************************************************************)
(* Claims about the environment and the requests of one call.              *)
(***************************************************************************)
EnvMissing == env.GRAFANA_URL = <<>> \/ env.GRAFANA_API_KEY = <<>>

\* C21: when GRAFANA_URL or GRAFANA_API_KEY is unset or empty, the client
\* factory returns an error and no client, and a tool call that has started
\* has ended as a tool error without a request.
C21_MissingEnvFailsFast ==
    EnvMissing =>
        /\ GetHTTPClientForGrafana(env).err # NilError
        /\ GetHTTPClientForGrafana(env).apiKey = <<>>
        /\ GetHTTPClientForGrafana(env).grafanaURL = <<>>
        /\ requests = <<>>
        /\ handler \in AllToolNames => pc = "done" /\ result.isError
C21_Witness ==
    /\ env.GRAFANA_URL # <<>>
    /\ env.GRAFANA_API_KEY = <<>>
    /\ pc = "done"
    /\ handler = "listRulesHandler"
    /\ result.isError
    /\ result.text = "creating alerting client"
    /\ requests = <<>>

\* The first fetch of the call failed: transport error, status other than
\* 200, or a body that does not decode.
PrimaryFailed ==
    \/ fetched.provisioning = "failed"
    \/ fetched.dashboard = "failed"
    \/ handler = "listAlertRulesHandler" /\ fetched.state = "failed"
    \/ ToolCall /\ Answered /\ fetched.answer.kind # "ok"

\* C22: within one call no endpoint is requested twice, and a call whose
\* first fetch failed has ended as a tool error after that one request.
C22_NoRetries ==
    /\ \A i, j \in 1..Len(requests) :
          requests[i].path = requests[j].path => i = j
    /\ (handler \in AllToolNames /\ PrimaryFailed)
          => pc = "done" /\ result.isError /\ Len(requests) = 1
C22_Witness ==
    /\ pc = "done"
    /\ handler = "listRulesHandler"
    /\ params.IncludeState
    /\ fetched.provisioning = "failed"
    /\ result.isError
    /\ Len(requests) = 1

\* The limit a query_loki_logs call has sent to Loki.
LogsRequested == handler = queryLokiLogsHandler.name /\ Len(requests) = 1
SentLogLimit == requests[1].query

C24_Witness ==
    /\ LogsRequested
    /\ params.Limit = 101
    /\ SentLogLimit = 100
AlertingPlaces ==
    {pl \in UNION {{<<g, j>> : j \in 1..Len(groups[g].Rules)} :
                      g \in 1..Len(groups)} :
        groups[pl[1]].Rules[pl[2]].Type = "alerting"}
RecordAt(pl) == groups[pl[1]].Rules[pl[2]]
KeyAt(pl) == alertStateKey(RecordAt(pl).Name, groups[pl[1]].Name)
Later(p, q) == p[1] > q[1] \/ (p[1] = q[1] /\ p[2] > q[2])
Enriched ==
    /\ ListReturned
    /\ handler = "listRulesHandler"
    /\ params.IncludeState
    /\ fetched.state = "ok"

\* C25: of the alerting records that share a summary's composite key, the
\* last one in response order gives the summary its State and Health.
C25_LastRecordWins ==
    Enriched =>
        \A i \in DOMAIN result.content :
            LET s == result.content[i]
                matching ==
                    {pl \in AlertingPlaces :
                        KeyAt(pl) = alertStateKey(s.Title, s.RuleGroup)}
            IN  matching # {} =>
                    LET last == CHOOSE pl \in matching :
                                    \A q \in matching : q = pl \/ Later(pl, q)
                    IN  /\ s.State = RecordAt(last).State
                        /\ s.Health = RecordAt(last).Health
C25_Witness ==
    /\ Enriched
    /\ Len(groups) = 2
    /\ groups[1].Name = groups[2].Name
    /\ Len(groups[1].Rules) = 1 /\ Len(groups[2].Rules) = 1
    /\ groups[1].Rules[1].Type = "alerting"
    /\ groups[2].Rules[1].Type = "alerting"
    /\ groups[1].Rules[1].State = "firing"
    /\ groups[2].Rules[1].State = "inactive"
    /\ \E i \in DOMAIN result.content :
          /\ result.content[i].RuleGroup = groups[2].Name
          /\ result.content[i].Title = groups[2].Rules[1].Name
          /\ result.content[i].State = "inactive"
          /\ result.content[i].Health = "error"

\* A summary without its State and Health.
WithoutState(summaries) ==
    [i \in DOMAIN summaries |->
        [summaries[i] EXCEPT !.State = "", !.Health = ""]]

\* C26 (as the claim states it): the result of a call with includeState is,
\* State and Health apart, the result the same provisioning answer gives
\* without includeState: one summary per provisioning rule, in order, with
\* the rule's own fields.
C26_EnrichmentIsAdditive ==
    (ListReturned /\ params.IncludeState)
        => WithoutState(result.content) = summarize(rules, FALSE, <<>>)

ProvisioningPath == "/api/v1/provisioning/alert-rules"
StatePath == "/api/prometheus/grafana/api/v1/rules"

\* C27 (as the claim states it): a list_alert_rules call issues at most two
\* requests, the provisioning request first, and the live-state request only
\* as the second one, with includeState, after a successful provisioning
\* fetch.
C27_ProvisioningFirst ==
    handler \in ListAlertRulesHandlers =>
        /\ Len(requests) <= 2
        /\ requests # <<>> => requests[1].path = ProvisioningPath
        /\ \A i \in 1..Len(requests) :
              requests[i].path = StatePath
                 => /\ i = 2
                    /\ params.IncludeState
                    /\ fetched.provisioning = "ok"

(***************************************************************************)
(* Claims about the summary's counts.                                      *)
(***************************************************************************)
\* C28 (as the claim states it): PanelCount is the number of entries of the
\* summary's Panels list.
C28_PanelCountIsLenPanels ==
    SummaryReturned
        => result.content.PanelCount = Len(result.content.Panels)

\* C28 (amended): PanelCount is the length of the document's panels
\* sequence and Panels holds one entry per panel that is an object, so
\* Panels never has more entries than PanelCount says and has exactly as
\* many when every entry of the panels sequence is an object.
C28_PanelsAreTheObjectPanels ==
    SummaryReturned =>
        /\ result.content.PanelCount = Len(DocPanels)
        /\ Len(result.content.Panels) = Cardinality(ObjectPanels)
        /\ Len(result.content.Panels) <= result.content.PanelCount
        /\ Len(result.content.Panels) = result.content.PanelCount
              <=> ObjectPanels = DOMAIN DocPanels
C28_Witness ==
    /\ SummaryReturned
    /\ Len(DocPanels) = 2
    /\ ObjectPanels = {1}
    /\ result.content.PanelCount = 2
    /\ Len(result.content.Panels) = 1

\* The PanelQuery entries extractPanelQueries produces for panel i, and the
\* entries of the panel's targets sequence that are no objects.
ExtractedFor(i) == Len(panelsLoop(<<>>, <<DocPanels[i]>>, 1))
NonObjectTargets(i) ==
    Cardinality({j \in DOMAIN PanelTargets(i) : ~IsMap(PanelTargets(i)[j])})
RECURSIVE SumQueryCount(_, _)
SumQueryCount(panels, i) ==
    IF i > Len(panels) THEN 0
    ELSE panels[i].QueryCount + SumQueryCount(panels, i + 1)
RECURSIVE SumNonObjectTargets(_)
SumNonObjectTargets(i) ==
    IF i > Len(DocPanels) THEN 0
    ELSE NonObjectTargets(i) + SumNonObjectTargets(i + 1)

\* C29 (as the claim states it): each panel's QueryCount is the number of
\* PanelQuery entries the extraction produces for the panel, and the sum of
\* the QueryCounts is the number of extracted entries.
C29_SummaryAgreesWithExtraction ==
    SummaryReturned =>
        /\ \A i \in ObjectPanels :
              result.content.Panels[PanelRank(i)].QueryCount = ExtractedFor(i)
        /\ SumQueryCount(result.content.Panels, 1)
              = Len(extractPanelQueries(dashboard))

\* C29 (amended): each panel's QueryCount is the number of PanelQuery
\* entries the extraction produces for the panel plus the number of entries
\* of its targets sequence that are no objects, which the extraction skips;
\* the sums differ by the number of such entries in the document, so the two
\* agree exactly when every targets entry is an object.
C29_SummaryCountsSkippedTargets ==
    SummaryReturned =>
        /\ \A i \in ObjectPanels :
              result.content.Panels[PanelRank(i)].QueryCount
                 = ExtractedFor(i) + NonObjectTargets(i)
        /\ SumQueryCount(result.content.Panels, 1)
              = Len(extractPanelQueries(dashboard)) + SumNonObjectTargets(1)
C29_Witness ==
    /\ SummaryReturned
    /\ Len(DocPanels) = 2
    /\ ObjectPanels = {1, 2}
    /\ PanelTargets(1) = <<PlainTarget, JNil>>
    /\ result.content.Panels[1].QueryCount = 2
    /\ ExtractedFor(1) = 1
    /\ Len(PanelTargets(2)) = 2
    /\ NonObjectTargets(2) = 0
    /\ SumQueryCount(result.content.Panels, 1) = 4
    /\ Len(extractPanelQueries(dashboard)) = 3

(***************************************************************************)
(* Claims about the metric names tools.                                    *)
(***************************************************************************)
NamesReturned ==
    /\ pc = "done"
    /\ handler \in MetricHandlers
    /\ Answered
    /\ ~result.isError
UpstreamNames == fetched.answer.names
\* The places of the upstream names that match the call's regex; every name
\* matches when no regex is given.
MatchingPlaces ==
    {i \in DOMAIN UpstreamNames :
        params.Regex = <<>>
        \/ MatchString(Compile(params.Regex), UpstreamNames[i])}
NameLimit == IF params.Limit > 0 THEN params.Limit ELSE 100
Smaller(a, b) == IF a < b THEN a ELSE b

\* C30: the names returned are the first min(L, m) of the m upstream names
\* that match the regex, in upstream order.
C30_FilterBeforeLimit ==
    NamesReturned =>
        LET matching == MatchingPlaces
        IN  /\ Len(result.content)
                 = Smaller(NameLimit, Cardinality(matching))
            /\ \A k \in DOMAIN result.content :
                  \E i \in matching :
                      /\ Cardinality({j \in matching : j < i}) = k - 1
                      /\ result.content[k] = UpstreamNames[i]
\* A matching name behind two names that do not match, with a limit of 1.
C30_Witness ==
    /\ NamesReturned
    /\ params.Regex = <<"^", "u">>
    /\ params.Limit = 1
    /\ UpstreamNames = <<<<"p">>, <<"p", "u", "p">>, <<"u", "p">>>>
    /\ result.content = <<<<"u", "p">>>>

(***************************************************************************)
(* Claims about invocations in flight together.                            *)
(***************************************************************************)
HasClient(i) == inflight[i].client.id # "nil"
\* The objects an invocation's frame leads to: its client, the client's
\* transport, the transport that one wraps, and the connections of that one.
ReachableFrom(i) ==
    IF ~HasClient(i) THEN {}
    ELSE {inflight[i].client.id, inflight[i].client.Transport.id,
          inflight[i].client.Transport.transport}
         \cup {"conn#" \o ToString(c) : c \in transport.conns}
\* Each invocation that returned has the result of its own answer.
ResultsAsAlone ==
    \A i \in 1..MaxInvocations :
        (inflight[i].pc = "done" /\ HasClient(i)) =>
            inflight[i].result = resultOf(inflight[i].answer)
\* No object of one invocation is reachable from another.
NothingShared ==
    \A i, j \in 1..MaxInvocations :
        i # j => ReachableFrom(i) \cap ReachableFrom(j) = {}

\* C23: invocations in flight together share no mutable object, and each
\* returns the result it returns alone for the same upstream answers.
C23_NoSharedObject == NothingShared /\ ResultsAsAlone
\* Two invocations in flight together, answered differently, each with the
\* result of its own answer.
C23_TwoInFlight ==
    /\ inflight[1].pc = "done" /\ HasClient(1)
    /\ inflight[2].pc = "sent"
    /\ inflight[1].answer # inflight[2].answer
    /\ inflight[1].result = resultOf(inflight[1].answer)
\* An invocation's request goes out on the connection an earlier one used.
C23_ConnectionReused ==
    \E i, j \in 1..MaxInvocations :
        /\ i # j
        /\ inflight[i].pc = "done" /\ HasClient(i)
        /\ inflight[j].pc = "sent"
        /\ inflight[j].conn = inflight[i].conn

====
